---- MODULE Spec2Model ----
(***************************************************************************)
(* Model of the Safebooru plugin (src/plugin.py): tag extraction, the tag  *)
(* pre-validation layer SafebooruAPI.validate_tags, the image search and   *)
(* the disambiguation dialogue of SafebooruCommand.execute and             *)
(* SafebooruAction.execute.                                                *)
(*                                                                         *)
(* Five specifications share the variables:                                *)
(*   SpecV  one call of validate_tags, one loop iteration per step, the    *)
(*          remote tag index answering arbitrarily;                        *)
(*   Spec   Command/Action invocations on one conversation, dispatched one *)
(*          at a time;                                                     *)
(*   SpecC  Command/Action invocations on one conversation that overlap    *)
(*          and interleave at their await points;                          *)
(*   SpecS  one call of search_images by a Command, Action or Tool, the    *)
(*          network answering arbitrarily;                                 *)
(*   SpecX  a message text through extract_tags, validate_tags and the     *)
(*          query of search_images, strings being sequences of code points.*)
(***************************************************************************)
EXTENDS Integers, Sequences, FiniteSets, TLC

\* ------------------------------------------------------------------ bounds
MaxTags == 2        \* tags in the string handed to validate_tags (SpecV)
MaxFuzzy == 6       \* longest candidate list the fuzzy lookup returns
MaxReqTags == 2     \* tags extracted from one Command/Action request (Spec)
NumInv == 2         \* invocation slots (coroutines) on the conversation
MaxImages == 2      \* records in one page of search results (SpecS)

\* ------------------------------------------------------- program constants
MaxAttempts == 3    \* vbs_state["count"] < 3
MaxCandidates == 5  \* candidates[:5]

FAST_PATH_TAGS ==
    {"shirakami_fubuki", "houshou_marine", "minato_aqua", "usada_pekora",
     "hatsune_miku", "megurine_luka", "kagamine_rin", "kagamine_len",
     "hu_tao_(genshin_impact)", "raiden_shogun_(genshin_impact)",
     "ganyu_(genshin_impact)", "keqing_(genshin_impact)"}

weak_semantics_without_cute == {"girl", "boy", "anime", "solo", "highres", "wallpaper"}

weak_semantics == {"girl", "boy", "anime", "solo", "highres", "wallpaper", "cute"}

default_tags == <<"anime", "cute">>

\* ------------------------------------------------------------ value helpers
\* str.lower() on the tags of the model's universe.
Lower(t) ==
    CASE t = "Hatsune_Miku" -> "hatsune_miku"
      [] t = "Cute" -> "cute"
      [] OTHER -> t

\* Names the tag index can return that contain a character >= U+0080
\* (written here in transliteration).
NonAsciiNames == {"chuyin_weilai_(hanzi)"}

\* all(ord(char) < 128 for char in c.get('name', ''))
IsAscii(name) == name \notin NonAsciiNames

Take(s, n) == SubSeq(s, 1, IF Len(s) < n THEN Len(s) ELSE n)

Range(s) == {s[i] : i \in 1..Len(s)}

\* ------------------------------------------------- the remote tag index
\* One HTTP exchange with the tag index, as the code observes it:
\*   conn_error  session.get raises (connection error, timeout)
\*   http_error  a response whose status is not 200
\*   bad_json    status 200, resp.json() raises
\*   json        status 200, decoded list of tag records (data: their names)
Response(kind, data) == [kind |-> kind, data |-> data]

NoResponse == Response("none", <<>>)

CandPool ==
    <<"fate_(series)", "fate/stay_night", "fate/grand_order", "fate/zero",
      "fate/extra", "fate/apocrypha", "fate/hollow_ataraxia", "fate/kaleid_liner">>

\* n candidates ordered by count (the names stand for whatever the index holds
\* under the queried prefix); with na, the most popular one is non-ASCII.
Cands(n, na) ==
    [i \in 1..n |-> IF na /\ i = 1 THEN "chuyin_weilai_(hanzi)" ELSE CandPool[i]]

FuzzyLists ==
    {Cands(n, FALSE) : n \in {0, 1, 2, MaxFuzzy}} \cup {Cands(n, TRUE) : n \in 1..3}

ExactResponses(tag) ==
    {Response("conn_error", <<>>), Response("http_error", <<>>),
     Response("bad_json", <<>>), Response("json", <<>>),
     Response("json", <<Lower(tag)>>)}

FuzzyResponses ==
    {Response("conn_error", <<>>), Response("http_error", <<>>),
     Response("bad_json", <<>>)} \cup {Response("json", l) : l \in FuzzyLists}

Raises(resp) == resp.kind \in {"conn_error", "bad_json"}

\* ------------------------------------------------- validate_tags (pure part)
\* results["ambiguous_entities"][tag] = candidates on an insertion-ordered dict,
\* kept as a sequence of (tag, candidates) entries.
DictSet(d, k, v) ==
    IF \E i \in 1..Len(d) : d[i].tag = k
    THEN [i \in 1..Len(d) |-> IF d[i].tag = k THEN [tag |-> k, candidates |-> v] ELSE d[i]]
    ELSE Append(d, [tag |-> k, candidates |-> v])

AllWeak(tags) == \A i \in 1..Len(tags) : Lower(tags[i]) \in weak_semantics

InitResults(tags) ==
    [validated_tags |-> <<>>,
     ambiguous_entities |-> <<>>,
     low_entropy |-> AllWeak(tags),
     fast_path |-> ~AllWeak(tags)]

IsFastPathCaseSensitive(tag) == tag \in FAST_PATH_TAGS

IsFastPath(tag) == Lower(tag) \in FAST_PATH_TAGS

\* The except clause of the loop body: keep the original tag, go on.
OnExceptionPropagate(results, tag) ==
    [results |-> results, raised |-> TRUE]

OnException(results, tag) ==
    [results |-> [results EXCEPT !.validated_tags = Append(@, tag)], raised |-> FALSE]

Continue(results) == [results |-> results, raised |-> FALSE]

\* The fuzzy-prefix lookup of a tag whose exact lookup returned no record.
FuzzyMatch(results, tag, fz) ==
    IF Raises(fz) THEN OnException(results, tag)
    ELSE IF fz.kind # "json" \/ fz.data = <<>> THEN Continue(results)
    ELSE LET candidates == SelectSeq(fz.data, IsAscii) IN
         IF Len(candidates) > 1
         THEN Continue([results EXCEPT !.ambiguous_entities =
                           DictSet(@, tag, Take(candidates, MaxCandidates))])
         ELSE IF Len(candidates) > 0
         THEN Continue([results EXCEPT !.validated_tags = Append(@, candidates[1])])
         ELSE Continue(results)

\* Does the loop body send the fuzzy request after this exact response?
NeedsFuzzy(tag, ex) == ~IsFastPath(tag) /\ ex.kind = "json" /\ ex.data = <<>>

\* One iteration of "for tag in tags": ex and fz are the tag index's answers to
\* the exact and the fuzzy request, read only if the request is sent.
ValidateTag(results, tag, ex, fz) ==
    IF IsFastPath(tag)
    THEN Continue([results EXCEPT !.validated_tags = Append(@, tag)])
    ELSE LET r == [results EXCEPT !.fast_path = FALSE] IN
         IF Raises(ex) THEN OnException(r, tag)
         ELSE IF ex.kind # "json" THEN Continue(r)
         ELSE IF ex.data = <<>> THEN FuzzyMatch(r, tag, fz)
         ELSE Continue([r EXCEPT !.validated_tags = Append(@, ex.data[1])])

\* The requests that iteration sends, in order.
RequestsOf(tag, pos, ex) ==
    IF IsFastPath(tag) THEN <<>>
    ELSE <<[mode |-> "exact", tag |-> tag, pos |-> pos]>>
         \o (IF NeedsFuzzy(tag, ex)
             THEN <<[mode |-> "fuzzy", tag |-> tag, pos |-> pos]>> ELSE <<>>)


RECURSIVE ValidateFrom(_, _, _, _)
ValidateFrom(results, tags, oracle, i) ==
    IF i > Len(tags) THEN Continue(results)
    ELSE LET s == ValidateTag(results, tags[i], oracle[i].ex, oracle[i].fz) IN
         IF s.raised THEN s ELSE ValidateFrom(s.results, tags, oracle, i + 1)

\* validate_tags(tags_str): oracle[i] holds the tag index's answers for tags[i].
validate_tags(tags, oracle) == ValidateFrom(InitResults(tags), tags, oracle, 1)

\* ------------------------------------------------ strings as code points
\* search_images and extract_tags work on the characters of their argument:
\* there a string is the sequence of its code points.
Comma == 44
Space == 32
AsciiLimit == 128   \* ord(c) < 128

\* The characters of the names the model uses, as code points (ord).
Chars(name) ==
    CASE name = "cat" -> <<99, 97, 116>>
      [] name = "dog" -> <<100, 111, 103>>
      [] name = "rabbit" -> <<114, 97, 98, 98, 105, 116>>
      [] name = "fox" -> <<102, 111, 120>>
      [] name = "wolf" -> <<119, 111, 108, 102>>
      [] name = "dragon" -> <<100, 114, 97, 103, 111, 110>>
      [] name = "angel" -> <<97, 110, 103, 101, 108>>
      [] name = "demon" -> <<100, 101, 109, 111, 110>>
      [] name = "magic" -> <<109, 97, 103, 105, 99>>
      [] name = "school" -> <<115, 99, 104, 111, 111, 108>>
      [] name = "swimsuit" -> <<115, 119, 105, 109, 115, 117, 105, 116>>
      [] name = "kimono" -> <<107, 105, 109, 111, 110, 111>>
      [] name = "cat_ears" -> <<99, 97, 116, 95, 101, 97, 114, 115>>
      [] name = "tail" -> <<116, 97, 105, 108>>
      [] name = "cute" -> <<99, 117, 116, 101>>
      [] name = "beautiful_girl" -> <<98, 101, 97, 117, 116, 105, 102, 117, 108, 95, 103, 105, 114, 108>>
      [] name = "boy" -> <<98, 111, 121>>
      [] name = "girl" -> <<103, 105, 114, 108>>
      [] name = "landscape" -> <<108, 97, 110, 100, 115, 99, 97, 112, 101>>
      [] name = "night" -> <<110, 105, 103, 104, 116>>
      [] name = "sakura" -> <<115, 97, 107, 117, 114, 97>>
      [] name = "cherry_blossom" -> <<99, 104, 101, 114, 114, 121, 95, 98, 108, 111, 115, 115, 111, 109>>
      [] name = "rain" -> <<114, 97, 105, 110>>
      [] name = "snow" -> <<115, 110, 111, 119>>
      [] name = "hatsune_miku" -> <<104, 97, 116, 115, 117, 110, 101, 95, 109, 105, 107, 117>>
      [] name = "luo_tianyi" -> <<108, 117, 111, 95, 116, 105, 97, 110, 121, 105>>
      [] name = "yan_he" -> <<121, 97, 110, 95, 104, 101>>
      [] name = "yuezheng_ling" -> <<121, 117, 101, 122, 104, 101, 110, 103, 95, 108, 105, 110, 103>>
      [] name = "kasane_teto" -> <<107, 97, 115, 97, 110, 101, 95, 116, 101, 116, 111>>
      [] name = "hakurei_reimu" -> <<104, 97, 107, 117, 114, 101, 105, 95, 114, 101, 105, 109, 117>>
      [] name = "kirisame_marisa" -> <<107, 105, 114, 105, 115, 97, 109, 101, 95, 109, 97, 114, 105, 115, 97>>
      [] name = "kasuga_ayumu" -> <<107, 97, 115, 117, 103, 97, 95, 97, 121, 117, 109, 117>>
      [] name = "flandre_scarlet" -> <<102, 108, 97, 110, 100, 114, 101, 95, 115, 99, 97, 114, 108, 101, 116>>
      [] name = "remilia_scarlet" -> <<114, 101, 109, 105, 108, 105, 97, 95, 115, 99, 97, 114, 108, 101, 116>>
      [] name = "emilia_(re:zero)" -> <<101, 109, 105, 108, 105, 97, 95, 40, 114, 101, 58, 122, 101, 114, 111, 41>>
      [] name = "rem_(re:zero)" -> <<114, 101, 109, 95, 40, 114, 101, 58, 122, 101, 114, 111, 41>>
      [] name = "ram_(re:zero)" -> <<114, 97, 109, 95, 40, 114, 101, 58, 122, 101, 114, 111, 41>>
      [] name = "hu_tao_(genshin_impact)" -> <<104, 117, 95, 116, 97, 111, 95, 40, 103, 101, 110, 115, 104, 105, 110, 95, 105, 109, 112, 97, 99, 116, 41>>
      [] name = "keqing_(genshin_impact)" -> <<107, 101, 113, 105, 110, 103, 95, 40, 103, 101, 110, 115, 104, 105, 110, 95, 105, 109, 112, 97, 99, 116, 41>>
      [] name = "ganyu_(genshin_impact)" -> <<103, 97, 110, 121, 117, 95, 40, 103, 101, 110, 115, 104, 105, 110, 95, 105, 109, 112, 97, 99, 116, 41>>
      [] name = "nahida_(genshin_impact)" -> <<110, 97, 104, 105, 100, 97, 95, 40, 103, 101, 110, 115, 104, 105, 110, 95, 105, 109, 112, 97, 99, 116, 41>>
      [] name = "raiden_shogun_(genshin_impact)" -> <<114, 97, 105, 100, 101, 110, 95, 115, 104, 111, 103, 117, 110, 95, 40, 103, 101, 110, 115, 104, 105, 110, 95, 105, 109, 112, 97, 99, 116, 41>>
      [] name = "multiple_girls" -> <<109, 117, 108, 116, 105, 112, 108, 101, 95, 103, 105, 114, 108, 115>>
      [] name = "white_hair" -> <<119, 104, 105, 116, 101, 95, 104, 97, 105, 114>>
      [] name = "black_hair" -> <<98, 108, 97, 99, 107, 95, 104, 97, 105, 114>>
      [] name = "blonde_hair" -> <<98, 108, 111, 110, 100, 101, 95, 104, 97, 105, 114>>
      [] name = "blue_hair" -> <<98, 108, 117, 101, 95, 104, 97, 105, 114>>
      [] name = "red_hair" -> <<114, 101, 100, 95, 104, 97, 105, 114>>
      [] name = "green_hair" -> <<103, 114, 101, 101, 110, 95, 104, 97, 105, 114>>
      [] name = "pink_hair" -> <<112, 105, 110, 107, 95, 104, 97, 105, 114>>
      [] name = "solo" -> <<115, 111, 108, 111>>
      [] name = "highres" -> <<104, 105, 103, 104, 114, 101, 115>>
      [] name = "wallpaper" -> <<119, 97, 108, 108, 112, 97, 112, 101, 114>>
      [] name = "loli" -> <<108, 111, 108, 105>>
      [] name = "onee-san" -> <<111, 110, 101, 101, 45, 115, 97, 110>>
      [] name = "maid" -> <<109, 97, 105, 100>>
      [] name = "nurse" -> <<110, 117, 114, 115, 101>>
      [] name = "police" -> <<112, 111, 108, 105, 99, 101>>
      [] name = "doctor" -> <<100, 111, 99, 116, 111, 114>>
      [] name = "teacher" -> <<116, 101, 97, 99, 104, 101, 114>>
      [] name = "student" -> <<115, 116, 117, 100, 101, 110, 116>>
      [] name = "uniform" -> <<117, 110, 105, 102, 111, 114, 109>>
      [] name = "sailor_uniform" -> <<115, 97, 105, 108, 111, 114, 95, 117, 110, 105, 102, 111, 114, 109>>
      [] name = "gym_uniform" -> <<103, 121, 109, 95, 117, 110, 105, 102, 111, 114, 109>>
      [] name = "school_swimsuit" -> <<115, 99, 104, 111, 111, 108, 95, 115, 119, 105, 109, 115, 117, 105, 116>>
      [] name = "cheongsam" -> <<99, 104, 101, 111, 110, 103, 115, 97, 109>>
      [] name = "gothic" -> <<103, 111, 116, 104, 105, 99>>
      [] name = "lolita" -> <<108, 111, 108, 105, 116, 97>>
      [] name = "forest" -> <<102, 111, 114, 101, 115, 116>>
      [] name = "sea" -> <<115, 101, 97>>
      [] name = "beach" -> <<98, 101, 97, 99, 104>>
      [] name = "sky" -> <<115, 107, 121>>
      [] name = "clouds" -> <<99, 108, 111, 117, 100, 115>>
      [] name = "sunset" -> <<115, 117, 110, 115, 101, 116>>
      [] name = "stars" -> <<115, 116, 97, 114, 115>>
      [] name = "moon" -> <<109, 111, 111, 110>>
      [] name = "flower" -> <<102, 108, 111, 119, 101, 114>>
      [] name = "city" -> <<99, 105, 116, 121>>
      [] name = "street" -> <<115, 116, 114, 101, 101, 116>>
      [] name = "indoor" -> <<105, 110, 100, 111, 111, 114>>
      [] name = "outdoor" -> <<111, 117, 116, 100, 111, 111, 114>>
      [] name = "close-up" -> <<99, 108, 111, 115, 101, 45, 117, 112>>
      [] name = "full_body" -> <<102, 117, 108, 108, 95, 98, 111, 100, 121>>
      [] name = "profile" -> <<112, 114, 111, 102, 105, 108, 101>>
      [] name = "back" -> <<98, 97, 99, 107>>
      [] name = "sitting" -> <<115, 105, 116, 116, 105, 110, 103>>
      [] name = "standing" -> <<115, 116, 97, 110, 100, 105, 110, 103>>
      [] name = "lying" -> <<108, 121, 105, 110, 103>>
      [] name = "smile" -> <<115, 109, 105, 108, 101>>
      [] name = "crying" -> <<99, 114, 121, 105, 110, 103>>
      [] name = "blush" -> <<98, 108, 117, 115, 104>>
      [] name = "angry" -> <<97, 110, 103, 114, 121>>
      [] name = "sleeping" -> <<115, 108, 101, 101, 112, 105, 110, 103>>
      [] name = "eating" -> <<101, 97, 116, 105, 110, 103>>
      [] name = "drinking" -> <<100, 114, 105, 110, 107, 105, 110, 103>>
      [] name = "playing" -> <<112, 108, 97, 121, 105, 110, 103>>
      [] name = "looking_at_viewer" -> <<108, 111, 111, 107, 105, 110, 103, 95, 97, 116, 95, 118, 105, 101, 119, 101, 114>>
      [] name = "Hatsune_Miku" -> <<72, 97, 116, 115, 117, 110, 101, 95, 77, 105, 107, 117>>
      [] name = "Cute" -> <<67, 117, 116, 101>>
      [] name = "fate" -> <<102, 97, 116, 101>>
      [] name = "anime" -> <<97, 110, 105, 109, 101>>
      [] name = "miku" -> <<109, 105, 107, 117>>
      [] name = "teto" -> <<116, 101, 116, 111>>
      [] name = "fan" -> <<102, 97, 110>>
      [] name = "rating:" -> <<114, 97, 116, 105, 110, 103, 58>>
      [] name = "safe" -> <<115, 97, 102, 101>>
      [] name = "questionable" -> <<113, 117, 101, 115, 116, 105, 111, 110, 97, 98, 108, 101>>
      [] name = "explicit" -> <<101, 120, 112, 108, 105, 99, 105, 116>>
      [] name = "fate_(series)" -> <<102, 97, 116, 101, 95, 40, 115, 101, 114, 105, 101, 115, 41>>
      [] name = "fate/stay_night" -> <<102, 97, 116, 101, 47, 115, 116, 97, 121, 95, 110, 105, 103, 104, 116>>
      [] name = "fate/grand_order" -> <<102, 97, 116, 101, 47, 103, 114, 97, 110, 100, 95, 111, 114, 100, 101, 114>>
      [] name = "fate/zero" -> <<102, 97, 116, 101, 47, 122, 101, 114, 111>>
      [] name = "fate/extra" -> <<102, 97, 116, 101, 47, 101, 120, 116, 114, 97>>
      [] name = "fate/apocrypha" -> <<102, 97, 116, 101, 47, 97, 112, 111, 99, 114, 121, 112, 104, 97>>
      [] name = "fate/hollow_ataraxia" -> <<102, 97, 116, 101, 47, 104, 111, 108, 108, 111, 119, 95, 97, 116, 97, 114, 97, 120, 105, 97>>
      [] name = "fate/kaleid_liner" -> <<102, 97, 116, 101, 47, 107, 97, 108, 101, 105, 100, 95, 108, 105, 110, 101, 114>>
      [] name = "chuyin_weilai_(hanzi)" -> <<21021, 38899, 26410, 26469>>   \* the non-ASCII name

KnownNames ==
    {"cat", "dog", "rabbit", "fox", "wolf", "dragon", "angel", "demon", "magic",
     "school", "swimsuit", "kimono", "cat_ears", "tail", "cute", "beautiful_girl",
     "boy", "girl", "landscape", "night", "sakura", "cherry_blossom", "rain", "snow",
     "hatsune_miku", "luo_tianyi", "yan_he", "yuezheng_ling", "kasane_teto",
     "hakurei_reimu", "kirisame_marisa", "kasuga_ayumu", "flandre_scarlet",
     "remilia_scarlet", "emilia_(re:zero)", "rem_(re:zero)", "ram_(re:zero)",
     "hu_tao_(genshin_impact)", "keqing_(genshin_impact)", "ganyu_(genshin_impact)",
     "nahida_(genshin_impact)", "raiden_shogun_(genshin_impact)", "multiple_girls",
     "white_hair", "black_hair", "blonde_hair", "blue_hair", "red_hair", "green_hair",
     "pink_hair", "solo", "highres", "wallpaper", "loli", "onee-san", "maid", "nurse",
     "police", "doctor", "teacher", "student", "uniform", "sailor_uniform",
     "gym_uniform", "school_swimsuit", "cheongsam", "gothic", "lolita", "forest", "sea",
     "beach", "sky", "clouds", "sunset", "stars", "moon", "flower", "city", "street",
     "indoor", "outdoor", "close-up", "full_body", "profile", "back", "sitting",
     "standing", "lying", "smile", "crying", "blush", "angry", "sleeping", "eating",
     "drinking", "playing", "looking_at_viewer", "Hatsune_Miku", "Cute", "fate",
     "anime", "miku", "teto", "fan", "rating:", "safe", "questionable", "explicit",
     "fate_(series)", "fate/stay_night", "fate/grand_order", "fate/zero", "fate/extra",
     "fate/apocrypha", "fate/hollow_ataraxia", "fate/kaleid_liner",
     "chuyin_weilai_(hanzi)"}

\* The name whose characters are cs.
Name(cs) == CHOOSE n \in KnownNames : Chars(n) = cs

\* str.isspace(): what strip(), split() and \s take for whitespace (ASCII part)
IsSpace(c) == c \in (9..13) \cup (28..32)

\* ' '.join(words)
RECURSIVE JoinWords(_)
JoinWords(words) ==
    IF words = <<>> THEN <<>>
    ELSE IF Len(words) = 1 THEN words[1]
    ELSE words[1] \o <<Space>> \o JoinWords(Tail(words))

\* s.split(): the maximal runs of non-whitespace characters, in order
RECURSIVE SplitFrom(_, _, _)
SplitFrom(cs, i, word) ==
    IF i > Len(cs) THEN (IF word = <<>> THEN <<>> ELSE <<word>>)
    ELSE IF IsSpace(cs[i])
         THEN (IF word = <<>> THEN <<>> ELSE <<word>>) \o SplitFrom(cs, i + 1, <<>>)
         ELSE SplitFrom(cs, i + 1, Append(word, cs[i]))

Split(cs) == SplitFrom(cs, 1, <<>>)

\* ------------------------------------------------ search_images (pure part)
MaxPid == 10        \* random.randint(0, 10)
MaxLimit == 100     \* min(limit, 100)

\* tags.replace(',', ' ')
ReplaceCommas(cs) == [i \in 1..Len(cs) |-> IF cs[i] = Comma THEN Space ELSE cs[i]]

\* "".join([c for c in processed_tags if ord(c) < 128])
IsAsciiChar(c) == c < AsciiLimit

DropNonAscii(cs) == SelectSeq(cs, IsAsciiChar)

\* processed_tags.strip()
Strip(cs) ==
    LET solid == {i \in 1..Len(cs) : ~IsSpace(cs[i])} IN
    IF solid = {} THEN <<>>
    ELSE SubSeq(cs, CHOOSE i \in solid : \A j \in solid : i <= j,
                    CHOOSE i \in solid : \A j \in solid : j <= i)

\* re.sub(r'\s+', ' ', processed_tags)
RECURSIVE CollapseFrom(_, _)
CollapseFrom(cs, i) ==
    IF i > Len(cs) THEN <<>>
    ELSE IF ~IsSpace(cs[i]) THEN <<cs[i]>> \o CollapseFrom(cs, i + 1)
    ELSE IF i > 1 /\ IsSpace(cs[i - 1]) THEN CollapseFrom(cs, i + 1)
    ELSE <<Space>> \o CollapseFrom(cs, i + 1)

CollapseSpaces(cs) == CollapseFrom(cs, 1)

\* if not processed_tags: processed_tags = "anime cute"
FallbackTags == Chars("anime") \o <<Space>> \o Chars("cute")

OrFallback(cs) == IF cs = <<>> THEN FallbackTags ELSE cs

ProcessedTags(cs) == OrFallback(CollapseSpaces(Strip(DropNonAscii(ReplaceCommas(cs)))))

\* params["tags"] = f"{processed_tags} rating:{rating}" (before URL quoting)
TagsParam(cs, rating) ==
    ProcessedTags(cs) \o <<Space>> \o Chars("rating:") \o Chars(rating)

\* params["limit"] = min(limit, 100)
LimitParam(limit) == IF limit < MaxLimit THEN limit ELSE MaxLimit

\* The except clauses of search_images: log, return [].
OnSearchErrorReraise(error) == [to |-> "raised", result |-> <<>>]

OnSearchError(error) == [to |-> "returned", result |-> <<>>]

\* The sampled page gave nothing (no record, undecodable body, status not 200):
\* log "not found" and return []; no other page is asked.
AfterNoResultRetry == [to |-> "enter", result |-> <<>>]

AfterNoResult == [to |-> "returned", result |-> <<>>]

\* ------------------------------------------------ extract_tags (pure part)
MinWordLen == 2     \* len(word) > 2

\* TAG_MAPPINGS.items(), in the table's order: the key and the value as written
\* (the comment gives the value; the key is the Chinese phrase, or an ASCII word).
TAG_MAPPINGS ==
    <<[chinese |-> <<29483>>, english |-> <<99, 97, 116>>],   \* cat
      [chinese |-> <<29399>>, english |-> <<100, 111, 103>>],   \* dog
      [chinese |-> <<20820, 23376>>, english |-> <<114, 97, 98, 98, 105, 116>>],   \* rabbit
      [chinese |-> <<29392, 29432>>, english |-> <<102, 111, 120>>],   \* fox
      [chinese |-> <<29436>>, english |-> <<119, 111, 108, 102>>],   \* wolf
      [chinese |-> <<40857>>, english |-> <<100, 114, 97, 103, 111, 110>>],   \* dragon
      [chinese |-> <<22825, 20351>>, english |-> <<97, 110, 103, 101, 108>>],   \* angel
      [chinese |-> <<24694, 39764>>, english |-> <<100, 101, 109, 111, 110>>],   \* demon
      [chinese |-> <<39764, 27861>>, english |-> <<109, 97, 103, 105, 99>>],   \* magic
      [chinese |-> <<23398, 26657>>, english |-> <<115, 99, 104, 111, 111, 108>>],   \* school
      [chinese |-> <<27891, 35013>>, english |-> <<115, 119, 105, 109, 115, 117, 105, 116>>],   \* swimsuit
      [chinese |-> <<21644, 26381>>, english |-> <<107, 105, 109, 111, 110, 111>>],   \* kimono
      [chinese |-> <<29483, 32819>>, english |-> <<99, 97, 116, 95, 101, 97, 114, 115>>],   \* cat_ears
      [chinese |-> <<23614, 24052>>, english |-> <<116, 97, 105, 108>>],   \* tail
      [chinese |-> <<21487, 29233>>, english |-> <<99, 117, 116, 101>>],   \* cute
      [chinese |-> <<32654, 23569, 22899>>, english |-> <<98, 101, 97, 117, 116, 105, 102, 117, 108, 95, 103, 105, 114, 108>>],   \* beautiful_girl
      [chinese |-> <<23569, 24180>>, english |-> <<98, 111, 121>>],   \* boy
      [chinese |-> <<23569, 22899>>, english |-> <<103, 105, 114, 108>>],   \* girl
      [chinese |-> <<39118, 26223>>, english |-> <<108, 97, 110, 100, 115, 99, 97, 112, 101>>],   \* landscape
      [chinese |-> <<22812, 26223>>, english |-> <<110, 105, 103, 104, 116>>],   \* night
      [chinese |-> <<27185, 33457>>, english |-> <<115, 97, 107, 117, 114, 97, 32, 99, 104, 101, 114, 114, 121, 95, 98, 108, 111, 115, 115, 111, 109>>],   \* sakura cherry_blossom
      [chinese |-> <<38632>>, english |-> <<114, 97, 105, 110>>],   \* rain
      [chinese |-> <<38634>>, english |-> <<115, 110, 111, 119>>],   \* snow
      [chinese |-> <<21021, 38899>>, english |-> <<104, 97, 116, 115, 117, 110, 101, 95, 109, 105, 107, 117>>],   \* hatsune_miku
      [chinese |-> <<26410, 26469>>, english |-> <<104, 97, 116, 115, 117, 110, 101, 95, 109, 105, 107, 117>>],   \* hatsune_miku
      [chinese |-> <<109, 105, 107, 117>>, english |-> <<104, 97, 116, 115, 117, 110, 101, 95, 109, 105, 107, 117>>],   \* hatsune_miku
      [chinese |-> <<22825, 20381>>, english |-> <<108, 117, 111, 95, 116, 105, 97, 110, 121, 105>>],   \* luo_tianyi
      [chinese |-> <<27931, 22825, 20381>>, english |-> <<108, 117, 111, 95, 116, 105, 97, 110, 121, 105>>],   \* luo_tianyi
      [chinese |-> <<35328, 21644>>, english |-> <<121, 97, 110, 95, 104, 101>>],   \* yan_he
      [chinese |-> <<20048, 27491, 32491>>, english |-> <<121, 117, 101, 122, 104, 101, 110, 103, 95, 108, 105, 110, 103>>],   \* yuezheng_ling
      [chinese |-> <<37325, 38899>>, english |-> <<107, 97, 115, 97, 110, 101, 95, 116, 101, 116, 111>>],   \* kasane_teto
      [chinese |-> <<116, 101, 116, 111>>, english |-> <<107, 97, 115, 97, 110, 101, 95, 116, 101, 116, 111>>],   \* kasane_teto
      [chinese |-> <<28789, 26790>>, english |-> <<104, 97, 107, 117, 114, 101, 105, 95, 114, 101, 105, 109, 117>>],   \* hakurei_reimu
      [chinese |-> <<39764, 29702, 27801>>, english |-> <<107, 105, 114, 105, 115, 97, 109, 101, 95, 109, 97, 114, 105, 115, 97>>],   \* kirisame_marisa
      [chinese |-> <<26149, 26085, 27493>>, english |-> <<107, 97, 115, 117, 103, 97, 95, 97, 121, 117, 109, 117>>],   \* kasuga_ayumu
      [chinese |-> <<22823, 38442>>, english |-> <<107, 97, 115, 117, 103, 97, 95, 97, 121, 117, 109, 117>>],   \* kasuga_ayumu
      [chinese |-> <<33433, 20848>>, english |-> <<102, 108, 97, 110, 100, 114, 101, 95, 115, 99, 97, 114, 108, 101, 116>>],   \* flandre_scarlet
      [chinese |-> <<34174, 31859>>, english |-> <<114, 101, 109, 105, 108, 105, 97, 95, 115, 99, 97, 114, 108, 101, 116>>],   \* remilia_scarlet
      [chinese |-> <<29233, 34588, 33673, 38597>>, english |-> <<101, 109, 105, 108, 105, 97, 95, 40, 114, 101, 58, 122, 101, 114, 111, 41>>],   \* emilia_(re:zero)
      [chinese |-> <<38647, 22982>>, english |-> <<114, 101, 109, 95, 40, 114, 101, 58, 122, 101, 114, 111, 41>>],   \* rem_(re:zero)
      [chinese |-> <<25289, 22982>>, english |-> <<114, 97, 109, 95, 40, 114, 101, 58, 122, 101, 114, 111, 41>>],   \* ram_(re:zero)
      [chinese |-> <<32993, 26691>>, english |-> <<104, 117, 95, 116, 97, 111, 95, 40, 103, 101, 110, 115, 104, 105, 110, 95, 105, 109, 112, 97, 99, 116, 41>>],   \* hu_tao_(genshin_impact)
      [chinese |-> <<21051, 26228>>, english |-> <<107, 101, 113, 105, 110, 103, 95, 40, 103, 101, 110, 115, 104, 105, 110, 95, 105, 109, 112, 97, 99, 116, 41>>],   \* keqing_(genshin_impact)
      [chinese |-> <<29976, 38632>>, english |-> <<103, 97, 110, 121, 117, 95, 40, 103, 101, 110, 115, 104, 105, 110, 95, 105, 109, 112, 97, 99, 116, 41>>],   \* ganyu_(genshin_impact)
      [chinese |-> <<32435, 35199, 22962>>, english |-> <<110, 97, 104, 105, 100, 97, 95, 40, 103, 101, 110, 115, 104, 105, 110, 95, 105, 109, 112, 97, 99, 116, 41>>],   \* nahida_(genshin_impact)
      [chinese |-> <<38647, 30005, 23558, 20891>>, english |-> <<114, 97, 105, 100, 101, 110, 95, 115, 104, 111, 103, 117, 110, 95, 40, 103, 101, 110, 115, 104, 105, 110, 95, 105, 109, 112, 97, 99, 116, 41>>],   \* raiden_shogun_(genshin_impact)
      [chinese |-> <<19968, 36215>>, english |-> <<109, 117, 108, 116, 105, 112, 108, 101, 95, 103, 105, 114, 108, 115>>],   \* multiple_girls
      [chinese |-> <<21512, 29031>>, english |-> <<109, 117, 108, 116, 105, 112, 108, 101, 95, 103, 105, 114, 108, 115>>],   \* multiple_girls
      [chinese |-> <<30333, 21457>>, english |-> <<119, 104, 105, 116, 101, 95, 104, 97, 105, 114>>],   \* white_hair
      [chinese |-> <<40657, 21457>>, english |-> <<98, 108, 97, 99, 107, 95, 104, 97, 105, 114>>],   \* black_hair
      [chinese |-> <<37329, 21457>>, english |-> <<98, 108, 111, 110, 100, 101, 95, 104, 97, 105, 114>>],   \* blonde_hair
      [chinese |-> <<34013, 21457>>, english |-> <<98, 108, 117, 101, 95, 104, 97, 105, 114>>],   \* blue_hair
      [chinese |-> <<32418, 21457>>, english |-> <<114, 101, 100, 95, 104, 97, 105, 114>>],   \* red_hair
      [chinese |-> <<32511, 21457>>, english |-> <<103, 114, 101, 101, 110, 95, 104, 97, 105, 114>>],   \* green_hair
      [chinese |-> <<31881, 21457>>, english |-> <<112, 105, 110, 107, 95, 104, 97, 105, 114>>],   \* pink_hair
      [chinese |-> <<21333, 20154>>, english |-> <<115, 111, 108, 111>>],   \* solo
      [chinese |-> <<29420, 29031>>, english |-> <<115, 111, 108, 111>>],   \* solo
      [chinese |-> <<39640, 28165>>, english |-> <<104, 105, 103, 104, 114, 101, 115>>],   \* highres
      [chinese |-> <<22721, 32440>>, english |-> <<119, 97, 108, 108, 112, 97, 112, 101, 114>>],   \* wallpaper
      [chinese |-> <<22823, 22270>>, english |-> <<104, 105, 103, 104, 114, 101, 115>>],   \* highres
      [chinese |-> <<33821, 33673>>, english |-> <<108, 111, 108, 105>>],   \* loli
      [chinese |-> <<24481, 22992>>, english |-> <<111, 110, 101, 101, 45, 115, 97, 110>>],   \* onee-san
      [chinese |-> <<22899, 20166>>, english |-> <<109, 97, 105, 100>>],   \* maid
      [chinese |-> <<25252, 22763>>, english |-> <<110, 117, 114, 115, 101>>],   \* nurse
      [chinese |-> <<35686, 23519>>, english |-> <<112, 111, 108, 105, 99, 101>>],   \* police
      [chinese |-> <<21307, 29983>>, english |-> <<100, 111, 99, 116, 111, 114>>],   \* doctor
      [chinese |-> <<32769, 24072>>, english |-> <<116, 101, 97, 99, 104, 101, 114>>],   \* teacher
      [chinese |-> <<23398, 29983>>, english |-> <<115, 116, 117, 100, 101, 110, 116>>],   \* student
      [chinese |-> <<21046, 26381>>, english |-> <<117, 110, 105, 102, 111, 114, 109>>],   \* uniform
      [chinese |-> <<27700, 25163, 26381>>, english |-> <<115, 97, 105, 108, 111, 114, 95, 117, 110, 105, 102, 111, 114, 109>>],   \* sailor_uniform
      [chinese |-> <<36816, 21160, 26381>>, english |-> <<103, 121, 109, 95, 117, 110, 105, 102, 111, 114, 109>>],   \* gym_uniform
      [chinese |-> <<27515, 24211, 27700>>, english |-> <<115, 99, 104, 111, 111, 108, 95, 115, 119, 105, 109, 115, 117, 105, 116>>],   \* school_swimsuit
      [chinese |-> <<26071, 34957>>, english |-> <<99, 104, 101, 111, 110, 103, 115, 97, 109>>],   \* cheongsam
      [chinese |-> <<21733, 29305>>, english |-> <<103, 111, 116, 104, 105, 99>>],   \* gothic
      [chinese |-> <<27931, 20029, 22612>>, english |-> <<108, 111, 108, 105, 116, 97>>],   \* lolita
      [chinese |-> <<26862, 26519>>, english |-> <<102, 111, 114, 101, 115, 116>>],   \* forest
      [chinese |-> <<22823, 28023>>, english |-> <<115, 101, 97>>],   \* sea
      [chinese |-> <<27801, 28393>>, english |-> <<98, 101, 97, 99, 104>>],   \* beach
      [chinese |-> <<22825, 31354>>, english |-> <<115, 107, 121>>],   \* sky
      [chinese |-> <<20113>>, english |-> <<99, 108, 111, 117, 100, 115>>],   \* clouds
      [chinese |-> <<22805, 38451>>, english |-> <<115, 117, 110, 115, 101, 116>>],   \* sunset
      [chinese |-> <<26143, 26143>>, english |-> <<115, 116, 97, 114, 115>>],   \* stars
      [chinese |-> <<26376, 20142>>, english |-> <<109, 111, 111, 110>>],   \* moon
      [chinese |-> <<33457>>, english |-> <<102, 108, 111, 119, 101, 114>>],   \* flower
      [chinese |-> <<22478, 24066>>, english |-> <<99, 105, 116, 121>>],   \* city
      [chinese |-> <<34903, 36947>>, english |-> <<115, 116, 114, 101, 101, 116>>],   \* street
      [chinese |-> <<23460, 20869>>, english |-> <<105, 110, 100, 111, 111, 114>>],   \* indoor
      [chinese |-> <<23460, 22806>>, english |-> <<111, 117, 116, 100, 111, 111, 114>>],   \* outdoor
      [chinese |-> <<29305, 20889>>, english |-> <<99, 108, 111, 115, 101, 45, 117, 112>>],   \* close-up
      [chinese |-> <<20840, 36523>>, english |-> <<102, 117, 108, 108, 95, 98, 111, 100, 121>>],   \* full_body
      [chinese |-> <<20391, 38754>>, english |-> <<112, 114, 111, 102, 105, 108, 101>>],   \* profile
      [chinese |-> <<32972, 38754>>, english |-> <<98, 97, 99, 107>>],   \* back
      [chinese |-> <<22352>>, english |-> <<115, 105, 116, 116, 105, 110, 103>>],   \* sitting
      [chinese |-> <<31449>>, english |-> <<115, 116, 97, 110, 100, 105, 110, 103>>],   \* standing
      [chinese |-> <<36538>>, english |-> <<108, 121, 105, 110, 103>>],   \* lying
      [chinese |-> <<31505>>, english |-> <<115, 109, 105, 108, 101>>],   \* smile
      [chinese |-> <<21741>>, english |-> <<99, 114, 121, 105, 110, 103>>],   \* crying
      [chinese |-> <<23475, 32670>>, english |-> <<98, 108, 117, 115, 104>>],   \* blush
      [chinese |-> <<29983, 27668>>, english |-> <<97, 110, 103, 114, 121>>],   \* angry
      [chinese |-> <<30561, 35273>>, english |-> <<115, 108, 101, 101, 112, 105, 110, 103>>],   \* sleeping
      [chinese |-> <<21507>>, english |-> <<101, 97, 116, 105, 110, 103>>],   \* eating
      [chinese |-> <<21917>>, english |-> <<100, 114, 105, 110, 107, 105, 110, 103>>],   \* drinking
      [chinese |-> <<29609>>, english |-> <<112, 108, 97, 121, 105, 110, 103>>],   \* playing
      [chinese |-> <<30475>>, english |-> <<108, 111, 111, 107, 105, 110, 103, 95, 97, 116, 95, 118, 105, 101, 119, 101, 114>>]>>   \* looking_at_viewer

\* stop_words
stop_words ==
    {<<97>>,   \* a
     <<97, 110>>,   \* an
     <<116, 104, 101>>,   \* the
     <<97, 110, 100>>,   \* and
     <<111, 114>>,   \* or
     <<98, 117, 116>>,   \* but
     <<105, 110>>,   \* in
     <<111, 110>>,   \* on
     <<97, 116>>,   \* at
     <<116, 111>>,   \* to
     <<102, 111, 114>>,   \* for
     <<111, 102>>,   \* of
     <<119, 105, 116, 104>>,   \* with
     <<98, 121>>,   \* by
     <<105, 109, 97, 103, 101>>,   \* image
     <<112, 105, 99, 116, 117, 114, 101>>,   \* picture
     <<112, 104, 111, 116, 111>>,   \* photo
     <<115, 101, 97, 114, 99, 104>>}   \* search

\* text.lower() (ASCII letters; the other characters of the model have no case)
LowerChars(cs) == [i \in 1..Len(cs) |-> IF cs[i] \in 65..90 THEN cs[i] + 32 ELSE cs[i]]

\* chinese in text
Contains(text, sub) ==
    \E i \in 0..(Len(text) - Len(sub)) : SubSeq(text, i + 1, i + Len(sub)) = sub

\* 1. for chinese, english in TAG_MAPPINGS.items(): the words of english.split()
\*    for every key found in the text
MappedWords(text) ==
    UNION {Range(Split(TAG_MAPPINGS[i].english)) :
              i \in {k \in 1..Len(TAG_MAPPINGS) : Contains(text, TAG_MAPPINGS[k].chinese)}}

\* [a-zA-Z0-9_]
IsAsciiWordChar(c) == c \in (48..57) \cup (65..90) \cup (97..122) \cup {95}

\* \w on str: the ASCII word characters and the letters of other scripts (of
\* which the model's texts hold CJK ideographs, U+4E00..U+9FFF)
IsWordChar(c) == IsAsciiWordChar(c) \/ c \in 19968..40959

\* \b at the gap before position i (1..Len+1): a word character on exactly one side
Boundary(text, i) ==
    (i > 1 /\ IsWordChar(text[i - 1])) # (i <= Len(text) /\ IsWordChar(text[i]))

\* Can r'\b[a-zA-Z0-9_]+\b' match text[i..j]?
Matches(text, i, j) ==
    /\ i <= j
    /\ \A k \in i..j : IsAsciiWordChar(text[k])
    /\ Boundary(text, i)
    /\ Boundary(text, j + 1)

\* 2. re.findall: scanning from the left, at each position the longest match;
\*    the scan goes on after the match.
RECURSIVE FindAllFrom(_, _)
FindAllFrom(text, i) ==
    IF i > Len(text) THEN <<>>
    ELSE LET ends == {j \in i..Len(text) : Matches(text, i, j)} IN
         IF ends = {} THEN FindAllFrom(text, i + 1)
         ELSE LET j == CHOOSE e \in ends : \A f \in ends : f <= e IN
              <<SubSeq(text, i, j)>> \o FindAllFrom(text, j + 1)

FindAll(text) == FindAllFrom(text, 1)

\* word.isdigit()
IsDigit(word) == word # <<>> /\ \A i \in 1..Len(word) : word[i] \in 48..57

\* if word not in stop_words and not word.isdigit() and len(word) > 2
KeepsWord(word) ==
    word \notin stop_words /\ ~IsDigit(word) /\ Len(word) > MinWordLen

\* found_tags at the end of extract_tags
found_tags(text) ==
    IF text = <<>> THEN {}
    ELSE LET lowered == LowerChars(text) IN
         MappedWords(lowered) \cup {w \in Range(FindAll(lowered)) : KeepsWord(w)}

\* list(found_tags): the set in any order
Orders(S) ==
    {f \in [1..Cardinality(S) -> S] : \A i, j \in 1..Cardinality(S) : f[i] = f[j] => i = j}

\* ' '.join(list(found_tags)): what extract_tags can return
extract_tags(text) == {JoinWords(f) : f \in Orders(found_tags(text))}

\* The tag index confirms every looked-up tag by its exact name.
ConfirmAll(names) ==
    [i \in 1..Len(names) |->
        [ex |-> Response("json", <<Lower(names[i])>>), fz |-> NoResponse]]

\* ------------------------------------------------------------------- state
VARIABLES
    v_pc,        \* validate_tags call: "off", "call", "loop", "done", "raised"
    v_tags,      \* tags_str.split()
    v_i,         \* position of the loop in v_tags
    v_results,   \* the results dict
    v_requests,  \* requests sent to the tag index so far
    v_log,       \* per finished iteration: the tag and the answers it received
    stored,      \* chat_stream.safebooru_vbs_state: an object id, or NoState
    heap,        \* the vbs_state dicts: object id -> [count, pending_tag]
    pc,          \* per invocation: where its coroutine is suspended
    kind,        \* per invocation: "command" or "action"
    tags,        \* per invocation: the tag string handed to validate_tags
    ref,         \* per invocation: the object its local vbs_state refers to
    seen,        \* per invocation: the vbs_state it held when validation returned
    res,         \* per invocation: vbs_results
    answers,     \* per invocation: the tag index's answers during its validation
    final_tags,  \* per invocation: final_tags
    images,      \* per invocation: did search_images return any record
    out,         \* per invocation: its calls to the host and the image board
    outcome,     \* per invocation: which return statement it reached
    prev,        \* (Spec) outcome of the invocation that returned last
    s_pc,        \* search_images call and its caller: "off", "caller", "enter", "get",
                 \* "json", "text", "returned", "raised", "caller_done"
    s_caller,    \* who calls: "command", "action" or "tool"
    s_tags,      \* the tags argument
    s_limit,     \* the limit argument
    s_rating,    \* the rating argument
    s_pid,       \* the sampled page index
    s_requests,  \* requests sent to the search endpoint so far
    s_resp,      \* what the network did to this call, step by step
    s_result,    \* the list the call returned
    s_calls,     \* calls of search_images the caller has made
    x_pc,        \* text pipeline: "off", "text", "extracted", "again", "validated",
                 \* "searched"
    x_text,      \* the message text
    x_tags,      \* what extract_tags returned for x_text
    x_again,     \* what extract_tags returned for x_tags
    x_results,   \* what validate_tags returned for x_tags
    x_query      \* params["tags"] of the search request

vvars == <<v_pc, v_tags, v_i, v_results, v_requests, v_log>>
hvars == <<stored, heap, pc, kind, tags, ref, seen, res, answers, final_tags, images,
           out, outcome, prev>>
svars == <<s_pc, s_caller, s_tags, s_limit, s_rating, s_pid, s_requests, s_resp,
           s_result, s_calls>>
xvars == <<x_pc, x_text, x_tags, x_again, x_results, x_query>>
vars == <<v_pc, v_tags, v_i, v_results, v_requests, v_log, stored, heap, pc, kind,
          tags, ref, seen, res, answers, final_tags, images, out, outcome, prev,
          s_pc, s_caller, s_tags, s_limit, s_rating, s_pid, s_requests, s_resp,
          s_result, s_calls, x_pc, x_text, x_tags, x_again, x_results, x_query>>

Procs == 1..NumInv
ObjIds == 1..(NumInv + 1)
NoState == 0
None == "None"
Kinds == {"command", "action"}

\* getattr default: {"count": 0, "pending_tag": None}
DefaultState == [count |-> 0, pending_tag |-> None]

SeqsUpTo(U, n) == UNION {[1..k -> U] : k \in 0..n}

\* ---------------------------------------------------------- inputs of SpecV
VTagUniverse == {"hatsune_miku", "Hatsune_Miku", "girl", "Cute", "fate"}

\* ----------------------------------------------------------- inputs of Spec
ReqTagUniverse == {"hatsune_miku", "girl", "fate"}

\* What extract_tags or the request's search_tags can hand over, or default_tags.
ReqTagStrings == SeqsUpTo(ReqTagUniverse, MaxReqTags) \cup {default_tags}

Answer(ex, fz) == [ex |-> ex, fz |-> fz]

ReqAnswers(tag) ==
    IF IsFastPath(tag) THEN {Answer(NoResponse, NoResponse)}
    ELSE {Answer(Response("json", <<Lower(tag)>>), NoResponse),
          Answer(Response("json", <<>>), Response("json", <<>>)),
          Answer(Response("json", <<>>), Response("json", Cands(2, FALSE))),
          Answer(Response("json", <<>>), Response("json", Cands(3, TRUE)))}

ReqOracles(ts) ==
    {o \in [1..Len(ts) -> UNION {ReqAnswers(t) : t \in Range(ts) \cup {"fate"}}] :
        \A i \in 1..Len(ts) : o[i] \in ReqAnswers(ts[i])}

\* -------------------------------------------------------------------- Init
HandlerInit ==
    /\ stored = NoState
    /\ heap = [o \in ObjIds |-> DefaultState]
    /\ pc = [p \in Procs |-> "idle"]
    /\ kind = [p \in Procs |-> "command"]
    /\ tags = [p \in Procs |-> <<>>]
    /\ ref = [p \in Procs |-> NoState]
    /\ seen = [p \in Procs |-> DefaultState]
    /\ res = [p \in Procs |-> InitResults(<<>>)]
    /\ answers = [p \in Procs |-> <<>>]
    /\ final_tags = [p \in Procs |-> <<>>]
    /\ images = [p \in Procs |-> FALSE]
    /\ out = [p \in Procs |-> <<>>]
    /\ outcome = [p \in Procs |-> "none"]
    /\ prev = "none"

ValidateInit(pc0, ts) ==
    /\ v_pc = pc0
    /\ v_tags = ts
    /\ v_i = 1
    /\ v_results = InitResults(<<>>)
    /\ v_requests = <<>>
    /\ v_log = <<>>

SearchInit(pc0, who, cs, limit, rating) ==
    /\ s_pc = pc0
    /\ s_caller = who
    /\ s_tags = cs
    /\ s_limit = limit
    /\ s_rating = rating
    /\ s_pid = 0
    /\ s_requests = <<>>
    /\ s_resp = <<>>
    /\ s_result = <<>>
    /\ s_calls = 0

SearchOff == SearchInit("off", "command", <<>>, 0, "safe")

ExtractInit(pc0, text) ==
    /\ x_pc = pc0
    /\ x_text = text
    /\ x_tags = <<>>
    /\ x_again = <<>>
    /\ x_results = InitResults(<<>>)
    /\ x_query = <<>>

ExtractOff == ExtractInit("off", <<>>)

Init == HandlerInit /\ ValidateInit("off", <<>>) /\ SearchOff /\ ExtractOff

InitV ==
    /\ HandlerInit /\ SearchOff /\ ExtractOff
    /\ \E ts \in SeqsUpTo(VTagUniverse, MaxTags) : ValidateInit("call", ts)

\* --------------------------------------------- validate_tags, step by step
\* tags = tags_str.split(); results = {...}; the weak-semantics test.
VEnter ==
    /\ v_pc = "call"
    /\ v_results' = InitResults(v_tags)
    /\ v_i' = 1
    /\ v_pc' = "loop"
    /\ UNCHANGED <<v_tags, v_requests, v_log>>
    /\ UNCHANGED <<hvars, svars, xvars>>

\* One iteration of the loop, with the tag index's answers to what it sends.
VStep ==
    /\ v_pc = "loop"
    /\ v_i <= Len(v_tags)
    /\ LET tag == v_tags[v_i] IN
       \E ex \in (IF IsFastPath(tag) THEN {NoResponse} ELSE ExactResponses(tag)) :
       \E fz \in (IF NeedsFuzzy(tag, ex) THEN FuzzyResponses ELSE {NoResponse}) :
          LET s == ValidateTag(v_results, tag, ex, fz) IN
          /\ v_results' = s.results
          /\ v_requests' = v_requests \o RequestsOf(tag, v_i, ex)
          /\ v_log' = Append(v_log, [tag |-> tag, ex |-> ex, fz |-> fz,
                                     vlen |-> Len(s.results.validated_tags)])
          /\ v_i' = v_i + 1
          /\ v_pc' = IF s.raised THEN "raised" ELSE "loop"
    /\ UNCHANGED v_tags
    /\ UNCHANGED <<hvars, svars, xvars>>

\* return results
VReturn ==
    /\ v_pc = "loop"
    /\ v_i > Len(v_tags)
    /\ v_pc' = "done"
    /\ UNCHANGED <<v_tags, v_i, v_results, v_requests, v_log>>
    /\ UNCHANGED <<hvars, svars, xvars>>

NextV == VEnter \/ VStep \/ VReturn

SpecV == InitV /\ [][NextV]_vars


\* ------------------------------------- Command / Action execute: helpers
\* One call the invocation makes: a text handed to _send_personality_text
\* (op names its intent), or a call of search_images, download_image,
\* send_image, store_action_info. tag and names are the call's arguments.
Ev(op, tag, names) == [op |-> op, tag |-> tag, names |-> names]

\* if vbs_results["ambiguous_entities"] and vbs_state["count"] < 3
CanAskOffByOne(results, count) ==
    results.ambiguous_entities # <<>> /\ count <= MaxAttempts

CanAsk(results, count) ==
    results.ambiguous_entities # <<>> /\ count < MaxAttempts

\* vbs_state["count"] += 1; vbs_state["pending_tag"] = ambiguous_tag
AskedNoIncrement(st, results) ==
    [count |-> st.count, pending_tag |-> results.ambiguous_entities[1].tag]

Asked(st, results) ==
    [count |-> st.count + 1, pending_tag |-> results.ambiguous_entities[1].tag]

\* candidates[0]['name'] of every entry of ambiguous_entities, in dict order
FirstCandidates(amb) == [i \in 1..Len(amb) |-> amb[i].candidates[1]]

\* final_tags: the validated tags, then (count >= 3) every first candidate
FinalTags(results, count) ==
    results.validated_tags \o
        (IF count >= MaxAttempts
         THEN FirstCandidates(results.ambiguous_entities) ELSE <<>>)

\* if hasattr(chat_stream, 'safebooru_vbs_state'): del ...
KeepState(cur) == cur

DeleteState(cur) == NoState

\* getattr(self.chat_stream, 'safebooru_vbs_state', {...}): the stored object,
\* or a new dict (the least id no one refers to).
FreshObj ==
    CHOOSE o \in ObjIds :
        /\ o # stored /\ \A q \in Procs : ref[q] # o
        /\ \A o2 \in ObjIds : (o2 # stored /\ \A q \in Procs : ref[q] # o2) => o <= o2

\* Dicts no reference reaches are gone.
Collect(h, st, rf) ==
    [o \in ObjIds |-> IF o = st \/ \E q \in Procs : rf[q] = o THEN h[o] ELSE DefaultState]

ClarifyEvent(results) ==
    Ev("clarify", results.ambiguous_entities[1].tag,
       results.ambiguous_entities[1].candidates)

\* A return statement of execute: the frame's reference to vbs_state is dropped.
Return(p, why, events) ==
    /\ out' = [out EXCEPT ![p] = @ \o events]
    /\ outcome' = [outcome EXCEPT ![p] = why]
    /\ pc' = [pc EXCEPT ![p] = "returned"]

\* ------------------------------------- Command / Action execute: actions
\* The host dispatches one invocation at a time on the conversation, into the
\* first free slot.
Dispatch(p) ==
    /\ \A q \in Procs : pc[q] = "idle"
    /\ \A q \in Procs : p <= q

\* _is_explicitly_triggered() is false: silent return.
Silent(p) ==
    /\ Dispatch(p)
    /\ \E k \in Kinds : kind' = [kind EXCEPT ![p] = k]
    /\ Return(p, "silent", <<>>)
    /\ UNCHANGED <<stored, heap, tags, ref, seen, res, final_tags, images, answers, prev>>
    /\ UNCHANGED <<vvars, svars, xvars>>

\* Command only: the text does not match command_pattern.
FormatError(p) ==
    /\ Dispatch(p)
    /\ kind' = [kind EXCEPT ![p] = "command"]
    /\ Return(p, "format_error", <<Ev("format_error", None, <<>>)>>)
    /\ UNCHANGED <<stored, heap, tags, ref, seen, res, final_tags, images, answers, prev>>
    /\ UNCHANGED <<vvars, svars, xvars>>

\* Up to "await validate_tags(tags)": the tags are fixed and vbs_state is read.
\* The Action never passes an empty string (raw_tags or default_tags).
Begin(p, kinds, inputs) ==
    /\ \E k \in kinds : \E ts \in inputs :
          /\ k = "action" => ts # <<>>
          /\ kind' = [kind EXCEPT ![p] = k]
          /\ tags' = [tags EXCEPT ![p] = ts]
    /\ IF stored # NoState
       THEN /\ ref' = [ref EXCEPT ![p] = stored]
            /\ heap' = heap
       ELSE /\ ref' = [ref EXCEPT ![p] = FreshObj]
            /\ heap' = [heap EXCEPT ![FreshObj] = DefaultState]
    /\ pc' = [pc EXCEPT ![p] = "validating"]
    /\ UNCHANGED <<stored, seen, res, final_tags, images, answers, out, outcome, prev>>
    /\ UNCHANGED <<vvars, svars, xvars>>

Start(p) == Dispatch(p) /\ Begin(p, Kinds, ReqTagStrings)

\* validate_tags returns; the code runs on to its next await.
Validate(p) ==
    /\ pc[p] = "validating"
    /\ \E oracle \in ReqOracles(tags[p]) :
          LET r == validate_tags(tags[p], oracle).results
              st == heap[ref[p]]
          IN  /\ answers' = [answers EXCEPT ![p] = oracle]
              /\ res' = [res EXCEPT ![p] = r]
              /\ seen' = [seen EXCEPT ![p] = st]
              /\ IF CanAsk(r, st.count)
                 THEN /\ heap' = [heap EXCEPT ![ref[p]] = Asked(st, r)]
                      /\ stored' = ref[p]
                      /\ pc' = [pc EXCEPT ![p] = "send_clarify"]
                      /\ UNCHANGED final_tags
                 ELSE IF r.low_entropy
                 THEN /\ pc' = [pc EXCEPT ![p] = "send_low_entropy"]
                      /\ UNCHANGED <<heap, stored, final_tags>>
                 ELSE /\ final_tags' = [final_tags EXCEPT ![p] = FinalTags(r, st.count)]
                      /\ IF st.count >= MaxAttempts
                         THEN /\ pc' = [pc EXCEPT ![p] = "send_notice"]
                              /\ UNCHANGED stored
                         ELSE /\ pc' = [pc EXCEPT ![p] = "send_searching"]
                              /\ stored' = DeleteState(stored)
                      /\ UNCHANGED heap
    /\ UNCHANGED <<kind, tags, ref, images, out, outcome, prev>>
    /\ UNCHANGED <<vvars, svars, xvars>>

\* await _send_personality_text(clarification); return
SendClarify(p) ==
    /\ pc[p] = "send_clarify"
    /\ Return(p, "clarify", <<ClarifyEvent(res[p])>>)
    /\ UNCHANGED <<stored, heap, kind, tags, ref, seen, res, final_tags, images, answers, prev>>
    /\ UNCHANGED <<vvars, svars, xvars>>

\* await _send_personality_text(low entropy); return
SendLowEntropy(p) ==
    /\ pc[p] = "send_low_entropy"
    /\ Return(p, "low_entropy", <<Ev("low_entropy", None, tags[p])>>)
    /\ UNCHANGED <<stored, heap, kind, tags, ref, seen, res, final_tags, images, answers, prev>>
    /\ UNCHANGED <<vvars, svars, xvars>>

\* await _send_personality_text(auto-selected notice); then the state is deleted.
SendNotice(p) ==
    /\ pc[p] = "send_notice"
    /\ out' = [out EXCEPT ![p] = Append(@, Ev("notice", None, final_tags[p]))]
    /\ stored' = DeleteState(stored)
    /\ pc' = [pc EXCEPT ![p] = "send_searching"]
    /\ UNCHANGED <<heap, kind, tags, ref, seen, res, final_tags, images, answers, outcome, prev>>
    /\ UNCHANGED <<vvars, svars, xvars>>

\* await _send_personality_text(searching)
SendSearching(p) ==
    /\ pc[p] = "send_searching"
    /\ out' = [out EXCEPT ![p] = Append(@, Ev("searching", None, final_tags[p]))]
    /\ pc' = [pc EXCEPT ![p] = "search"]
    /\ UNCHANGED <<stored, heap, kind, tags, ref, seen, res, final_tags, images, answers,
                   outcome, prev>>
    /\ UNCHANGED <<vvars, svars, xvars>>

\* images = await search_images(final_tags, ...)
Search(p) ==
    /\ pc[p] = "search"
    /\ out' = [out EXCEPT ![p] = Append(@, Ev("search_images", None, final_tags[p]))]
    /\ \E found \in BOOLEAN : images' = [images EXCEPT ![p] = found]
    /\ pc' = [pc EXCEPT ![p] = "deliver"]
    /\ UNCHANGED <<stored, heap, kind, tags, ref, seen, res, final_tags, answers, outcome,
                   prev>>
    /\ UNCHANGED <<vvars, svars, xvars>>

\* What follows the search up to the return or to an exception: pick, download,
\* send the image; the texts on failure.
DeliverEvents(how) ==
    CASE how = "empty" -> <<>>
      [] how = "no_url" -> <<Ev("failure_text", None, <<>>)>>
      [] how = "download_failed" ->
            <<Ev("download_image", None, <<>>), Ev("failure_text", None, <<>>)>>
      [] how = "send_failed" ->
            <<Ev("download_image", None, <<>>), Ev("send_image", None, <<>>),
              Ev("failure_text", None, <<>>)>>
      [] how = "sent" ->
            <<Ev("download_image", None, <<>>), Ev("send_image", None, <<>>)>>
      [] how = "send_raised" ->
            <<Ev("download_image", None, <<>>), Ev("send_image_raised", None, <<>>)>>

\* How the host's store_action_info behaves for one invocation.
StoreBehaviours == {"ok", "first_raises", "all_raise"}

\* One call of store_action_info: recorded, or an exception.
StoreCall(raises) ==
    IF raises THEN <<Ev("store_action_info_raised", None, <<>>)>>
    ELSE <<Ev("store_action_info", None, <<>>)>>

\* except Exception: the generic failure text, then (Action) store_action_info.
\* _send_personality_text swallows its own exceptions; store_action_info is
\* called bare, so its exception leaves execute.
Handler(k, storeRaises) ==
    IF k = "action"
    THEN [events |-> <<Ev("error_text", None, <<>>)>> \o StoreCall(storeRaises),
          why |-> IF storeRaises THEN "escaped" ELSE "error"]
    ELSE [events |-> <<Ev("error_text", None, <<>>)>>, why |-> "error"]

\* The path of execute after the search: its events and the way it ends.
DeliverPath(k, how, sb) ==
    IF how = "send_raised"
    THEN LET h == Handler(k, sb # "ok") IN
         [events |-> DeliverEvents(how) \o h.events, why |-> h.why]
    ELSE IF k = "action" /\ sb # "ok"
    THEN LET h == Handler(k, sb = "all_raise") IN
         [events |-> DeliverEvents(how) \o StoreCall(TRUE) \o h.events, why |-> h.why]
    ELSE [events |-> DeliverEvents(how) \o
                        (IF k = "action" THEN StoreCall(FALSE) ELSE <<>>),
          why |-> IF how = "sent" THEN "sent" ELSE "finished"]

\* The rest of execute after the search, to its return or to the exception that
\* leaves it (the Action records action_done=True on the paths that get there).
Deliver(p) ==
    /\ pc[p] = "deliver"
    /\ \E how \in (IF images[p]
                   THEN {"no_url", "download_failed", "send_failed", "sent", "send_raised"}
                   ELSE {"empty"}) :
       \E sb \in (IF kind[p] = "action" THEN StoreBehaviours ELSE {"ok"}) :
          LET path == DeliverPath(kind[p], how, sb) IN
          Return(p, path.why, path.events)
    /\ UNCHANGED <<stored, heap, kind, tags, ref, seen, res, final_tags, images, answers, prev>>
    /\ UNCHANGED <<vvars, svars, xvars>>

\* validate_tags raises (outside its per-tag try): the except clause of execute.
ValidateRaises(p) ==
    /\ pc[p] = "validating"
    /\ \E sb \in (IF kind[p] = "action" THEN {"ok", "all_raise"} ELSE {"ok"}) :
          LET h == Handler(kind[p], sb # "ok") IN
          Return(p, IF h.why = "escaped" THEN "validation_escaped" ELSE "validation_error",
                 h.events)
    /\ UNCHANGED <<stored, heap, kind, tags, ref, seen, res, final_tags, images, answers, prev>>
    /\ UNCHANGED <<vvars, svars, xvars>>

\* The returned invocation's frame is released; the slot is free again.
Release(p) ==
    /\ pc[p] = "returned"
    /\ prev' = outcome[p]
    /\ pc' = [pc EXCEPT ![p] = "idle"]
    /\ ref' = [ref EXCEPT ![p] = NoState]
    /\ heap' = Collect(heap, stored, [ref EXCEPT ![p] = NoState])
    /\ kind' = [kind EXCEPT ![p] = "command"]
    /\ tags' = [tags EXCEPT ![p] = <<>>]
    /\ seen' = [seen EXCEPT ![p] = DefaultState]
    /\ res' = [res EXCEPT ![p] = InitResults(<<>>)]
    /\ final_tags' = [final_tags EXCEPT ![p] = <<>>]
    /\ images' = [images EXCEPT ![p] = FALSE]
    /\ answers' = [answers EXCEPT ![p] = <<>>]
    /\ out' = [out EXCEPT ![p] = <<>>]
    /\ outcome' = [outcome EXCEPT ![p] = "none"]
    /\ UNCHANGED stored
    /\ UNCHANGED <<vvars, svars, xvars>>

Next ==
    \E p \in Procs :
        \/ Silent(p)
        \/ FormatError(p)
        \/ Start(p)
        \/ Validate(p)
        \/ ValidateRaises(p)
        \/ SendClarify(p)
        \/ SendLowEntropy(p)
        \/ SendNotice(p)
        \/ SendSearching(p)
        \/ Search(p)
        \/ Deliver(p)
        \/ Release(p)

Spec == Init /\ [][Next]_vars


\* ------------------------------------------- overlapping Command / Action
\* The host starts an invocation for a message of the conversation while others
\* are suspended at an await: the coroutines interleave at their await points.
OverlapTagStrings == {<<"fate">>}

\* Commands run in the odd slots, Actions in the even ones (their code is the
\* same up to the search).
SlotKinds(p) == IF p % 2 = 1 THEN {"command"} ELSE {"action"}

StartOverlapping(p) ==
    /\ pc[p] = "idle"
    /\ Begin(p, SlotKinds(p), OverlapTagStrings)

\* The frame of p is gone: its locals, its reference to vbs_state.
Released(p) ==
    /\ pc' = [pc EXCEPT ![p] = "idle"]
    /\ ref' = [ref EXCEPT ![p] = NoState]
    /\ kind' = [kind EXCEPT ![p] = "command"]
    /\ tags' = [tags EXCEPT ![p] = <<>>]
    /\ seen' = [seen EXCEPT ![p] = DefaultState]
    /\ res' = [res EXCEPT ![p] = InitResults(<<>>)]
    /\ final_tags' = [final_tags EXCEPT ![p] = <<>>]
    /\ answers' = [answers EXCEPT ![p] = <<>>]
    /\ out' = [out EXCEPT ![p] = <<>>]
    /\ UNCHANGED <<images, outcome, prev>>

\* validate_tags returns and the code runs on. What follows the decision on the
\* clarification, low-entropy and plain search paths (texts, search, delivery,
\* return) neither reads nor writes the conversation's state: it is taken in the
\* same step, up to the release of the frame. The forced resolution suspends at
\* the notice before it deletes the state.
Decide(p) ==
    /\ pc[p] = "validating"
    /\ \E oracle \in ReqOracles(tags[p]) :
          LET r == validate_tags(tags[p], oracle).results
              st == heap[ref[p]]
              gone == [ref EXCEPT ![p] = NoState]
          IN  IF CanAsk(r, st.count)
              THEN /\ heap' = Collect([heap EXCEPT ![ref[p]] = Asked(st, r)], ref[p], gone)
                   /\ stored' = ref[p]
                   /\ Released(p)
              ELSE IF r.low_entropy
              THEN /\ heap' = Collect(heap, stored, gone)
                   /\ UNCHANGED stored
                   /\ Released(p)
              ELSE IF st.count >= MaxAttempts
              THEN /\ answers' = [answers EXCEPT ![p] = oracle]
                   /\ res' = [res EXCEPT ![p] = r]
                   /\ seen' = [seen EXCEPT ![p] = st]
                   /\ final_tags' = [final_tags EXCEPT ![p] = FinalTags(r, st.count)]
                   /\ pc' = [pc EXCEPT ![p] = "send_notice"]
                   /\ UNCHANGED <<stored, heap, kind, tags, ref, images, out, outcome, prev>>
              ELSE /\ stored' = DeleteState(stored)
                   /\ heap' = Collect(heap, DeleteState(stored), gone)
                   /\ Released(p)
    /\ UNCHANGED <<vvars, svars, xvars>>

\* After the notice and the deletion: the rest of the invocation, as above.
Finish(p) ==
    /\ pc[p] = "send_searching"
    /\ heap' = Collect(heap, stored, [ref EXCEPT ![p] = NoState])
    /\ Released(p)
    /\ UNCHANGED stored
    /\ UNCHANGED <<vvars, svars, xvars>>

NextC ==
    \E p \in Procs :
        \/ StartOverlapping(p)
        \/ Decide(p)
        \/ SendNotice(p)
        \/ Finish(p)

SpecC == Init /\ [][NextC]_vars

\* ------------------------------------------------ search_images, step by step
\* Inputs: tag strings as the callers or any other code may pass them.
SearchTexts ==
    { <<>>,
      Chars("fate"),
      Chars("hatsune_miku") \o <<Space>> \o Chars("highres"),
      Chars("fate") \o <<Comma>> \o Chars("girl"),
      <<Space, Space>> \o Chars("fate") \o <<9, Space>> \o Chars("girl") \o <<Space>>,
      Chars("chuyin_weilai_(hanzi)") }

Callers == {"command", "action", "tool"}

\* Command, Action: max(max_results * 3, 10); Tool: min(limit, 10), default 1.
SearchLimits(who) == IF who = "tool" THEN {1, 10} ELSE {10, 150}

Ratings == {"safe", "questionable"}

\* What response.json() gives: a list of n records, one object, null, or an error.
Body(form, n) == [form |-> form, n |-> n]

Bodies ==
    {Body("list", n) : n \in 0..MaxImages}
        \cup {Body("object", 1), Body("object", 0), Body("null", 0),
              Body("undecodable", 0)}

\* image_list = data if isinstance(data, list) else [data]; records are 1..n,
\* an object that is not a list is 0.
ImageList(body) ==
    IF body.form = "list" THEN [i \in 1..body.n |-> i] ELSE <<0>>

\* if data:
Truthy(body) == body.form \in {"list", "object"} /\ body.n > 0

Goto(r) ==
    /\ s_pc' = r.to
    /\ s_result' = r.result

\* The one call site of the caller (lines 489-492, 651-654, 750).
SCall ==
    /\ s_pc = "caller"
    /\ s_calls' = s_calls + 1
    /\ s_pc' = "enter"
    /\ UNCHANGED <<s_caller, s_tags, s_limit, s_rating, s_pid, s_requests, s_resp, s_result>>
    /\ UNCHANGED <<vvars, hvars, xvars>>

\* Up to the request: the tags are processed, pid is drawn.
SEnter ==
    /\ s_pc = "enter"
    /\ \E pid \in 0..MaxPid : s_pid' = pid
    /\ s_pc' = "get"
    /\ UNCHANGED <<s_caller, s_tags, s_limit, s_rating, s_requests, s_resp, s_result, s_calls>>
    /\ UNCHANGED <<vvars, hvars, xvars>>

\* async with session.get(...) as response: the status, or an exception.
SGet ==
    /\ s_pc = "get"
    /\ s_requests' = Append(s_requests, [pid |-> s_pid,
                                          tags |-> TagsParam(s_tags, s_rating),
                                          limit |-> LimitParam(s_limit)])
    /\ \E r \in {"status_200", "status_other", "timeout", "client_error", "error"} :
          /\ s_resp' = Append(s_resp, r)
          /\ IF r = "status_200" THEN s_pc' = "json" /\ UNCHANGED s_result
             ELSE IF r = "status_other" THEN Goto(AfterNoResult)
             ELSE Goto(OnSearchError(r))
    /\ UNCHANGED <<s_caller, s_tags, s_limit, s_rating, s_pid, s_calls>>
    /\ UNCHANGED <<vvars, hvars, xvars>>

\* data = await response.json()
SJson ==
    /\ s_pc = "json"
    /\ \E body \in Bodies :
          IF body.form = "undecodable"
          THEN /\ s_resp' = Append(s_resp, "undecodable")
               /\ s_pc' = "text"
               /\ UNCHANGED s_result
          ELSE IF Truthy(body)
          THEN /\ s_resp' = Append(s_resp, "records")
               /\ s_pc' = "returned"
               /\ s_result' = ImageList(body)
          ELSE /\ s_resp' = Append(s_resp, "no_records")
               /\ Goto(AfterNoResult)
    /\ UNCHANGED <<s_caller, s_tags, s_limit, s_rating, s_pid, s_requests, s_calls>>
    /\ UNCHANGED <<vvars, hvars, xvars>>

\* except Exception: text = await response.text()
SText ==
    /\ s_pc = "text"
    /\ \E read \in BOOLEAN :
          IF read
          THEN s_resp' = Append(s_resp, "text_read") /\ Goto(AfterNoResult)
          ELSE s_resp' = Append(s_resp, "text_error") /\ Goto(OnSearchError("error"))
    /\ UNCHANGED <<s_caller, s_tags, s_limit, s_rating, s_pid, s_requests, s_calls>>
    /\ UNCHANGED <<vvars, hvars, xvars>>

\* The caller goes on with the list, to its return: it does not call again.
SCallerDone ==
    /\ s_pc = "returned"
    /\ s_pc' = "caller_done"
    /\ UNCHANGED <<s_caller, s_tags, s_limit, s_rating, s_pid, s_requests, s_resp,
                   s_result, s_calls>>
    /\ UNCHANGED <<vvars, hvars, xvars>>

InitS ==
    /\ HandlerInit /\ ValidateInit("off", <<>>) /\ ExtractOff
    /\ \E who \in Callers : \E cs \in SearchTexts : \E limit \in SearchLimits(who) :
       \E rating \in Ratings : SearchInit("caller", who, cs, limit, rating)

NextS == SCall \/ SEnter \/ SGet \/ SJson \/ SText \/ SCallerDone

SpecS == InitS /\ [][NextS]_vars


\* --------------------------------- from the message text to the search query
\* "xiang kan chuyin de gaoqing tu" (U+60F3 U+770B U+521D U+97F3 U+7684 U+9AD8
\* U+6E05 U+56FE): "I want to see a high-resolution picture of Hatsune (Miku)".
WantMikuHighres == <<24819, 30475, 21021, 38899, 30340, 39640, 28165, 22270>>

\* Texts beside the table's keys: ASCII words next to ideographs, upper case,
\* digits, stop words, short words, the empty text.
OtherTexts ==
    { WantMikuHighres,
      <<22270>> \o Chars("miku") \o <<22270>>,
      Chars("miku") \o <<Space, 22270>>,
      Chars("Hatsune_Miku") \o <<Space>> \o Chars("fan") \o <<Space, 49, 50, 51, Space,
          116, 104, 101, Space, 97, 110>>,
      <<>> }

ExtractTexts == {TAG_MAPPINGS[i].chinese : i \in 1..Len(TAG_MAPPINGS)} \cup OtherTexts

\* The tags of a tag string, by name.
Names(cs) == [i \in 1..Len(Split(cs)) |-> Name(Split(cs)[i])]

\* extract_tags(text) returns.
XExtract ==
    /\ x_pc = "text"
    /\ \E s \in extract_tags(x_text) : x_tags' = s
    /\ x_pc' = "extracted"
    /\ UNCHANGED <<x_text, x_again, x_results, x_query>>
    /\ UNCHANGED <<vvars, hvars, svars>>

\* The returned tag string is handed to extract_tags once more (as the Action
\* does with search_tags, line 612).
XReextract ==
    /\ x_pc = "extracted"
    /\ \E s \in extract_tags(x_tags) : x_again' = s
    /\ x_pc' = "again"
    /\ UNCHANGED <<x_text, x_tags, x_results, x_query>>
    /\ UNCHANGED <<vvars, hvars, svars>>

\* The returned tag string is validated, the tag index confirming every tag.
XValidate ==
    /\ x_pc = "extracted"
    /\ LET r == validate_tags(Names(x_tags), ConfirmAll(Names(x_tags))).results IN
       /\ x_results' = r
       /\ x_pc' = IF r.low_entropy THEN "low_entropy" ELSE "validated"
    /\ UNCHANGED <<x_text, x_tags, x_again, x_query>>
    /\ UNCHANGED <<vvars, hvars, svars>>

\* final_tags = " ".join(validated_tags); search_images(final_tags, ..., "safe")
\* builds params["tags"].
XSearch ==
    /\ x_pc = "validated"
    /\ LET v == x_results.validated_tags IN
       x_query' = TagsParam(JoinWords([i \in 1..Len(v) |-> Chars(v[i])]), "safe")
    /\ x_pc' = "searched"
    /\ UNCHANGED <<x_text, x_tags, x_again, x_results>>
    /\ UNCHANGED <<vvars, hvars, svars>>

InitX ==
    /\ HandlerInit /\ ValidateInit("off", <<>>) /\ SearchOff
    /\ \E text \in ExtractTexts : ExtractInit("text", text)

NextX == XExtract \/ XReextract \/ XValidate \/ XSearch

SpecX == InitX /\ [][NextX]_vars


\* =================================================================== claims
\* ---------------------------------------------------------------- vocabulary
\* p has passed the decision that follows validation (res, seen are its own).
Validated(p) ==
    \/ pc[p] \in {"send_clarify", "send_low_entropy", "send_notice",
                  "send_searching", "search", "deliver"}
    \/ pc[p] = "returned" /\ outcome[p] \in {"clarify", "low_entropy", "sent", "finished",
                                            "error", "escaped"}

\* p has passed that decision and returned; nothing has run on the conversation since.
Returned(p) == pc[p] = "returned" /\ Validated(p)

Positions(p, op) == {i \in 1..Len(out[p]) : out[p][i].op = op}

\* The attempt count the conversation holds now.
CountNow == IF stored = NoState THEN 0 ELSE heap[stored].count

PendingNow == IF stored = NoState THEN None ELSE heap[stored].pending_tag

\* The tag index answered p's lookup of its i-th tag with no exact record and more
\* than one ASCII-only name under the prefix.
AmbiguousAt(p, i) ==
    /\ Lower(tags[p][i]) \notin FAST_PATH_TAGS
    /\ answers[p][i].ex.kind = "json" /\ answers[p][i].ex.data = <<>>
    /\ answers[p][i].fz.kind = "json"
    /\ Cardinality({k \in 1..Len(answers[p][i].fz.data) :
                       answers[p][i].fz.data[k] \notin NonAsciiNames}) > 1

\* The first tag of p's input that was found ambiguous.
FirstAmbiguousInInput(p) ==
    LET at == {i \in 1..Len(tags[p]) : AmbiguousAt(p, i)}
    IN  tags[p][CHOOSE i \in at : \A j \in at : i <= j]

RemoveAt(s, k) == SubSeq(s, 1, k - 1) \o SubSeq(s, k + 1, Len(s))

VDone == v_pc = "done"

\* The iteration logged in e ended in the except clause.
Failed(e) ==
    /\ Lower(e.tag) \notin FAST_PATH_TAGS
    /\ \/ e.ex.kind \in {"conn_error", "bad_json"}
       \/ e.fz.kind \in {"conn_error", "bad_json"}

\* ------------------------------------------------------------------------ C1
\* C1: after any serialized sequence of Command and Action invocations, with any
\* validation outcomes, the attempt count stored on the conversation (and the one
\* any invocation holds) is between 0 and 3.
C1_CountBetween0And3 ==
    /\ stored # NoState => heap[stored].count \in 0..3
    /\ \A p \in Procs : ref[p] # NoState => heap[ref[p]].count \in 0..3

\* An invocation met an ambiguous tag while the stored count was already 3, and the
\* stored count is still 3.
C1_Witness ==
    \E p \in Procs :
        /\ Validated(p) /\ seen[p].count = 3
        /\ res[p].ambiguous_entities # <<>>
        /\ stored # NoState /\ heap[stored].count = 3

\* ------------------------------------------------------------------------ C2
\* C2: an invocation that starts with attempt count 3 and whose validation finds
\* an ambiguous tag sends no clarification prompt and issues the image search with
\* the first candidate of that tag, whatever the other tags of the input are.
C2_ForcedResolutionSearches ==
    \A p \in Procs :
        (Returned(p) /\ seen[p].count = 3 /\ res[p].ambiguous_entities # <<>>) =>
            /\ Positions(p, "clarify") = {}
            /\ \E i \in Positions(p, "search_images") :
                  res[p].ambiguous_entities[1].candidates[1] \in Range(out[p][i].names)

\* ------------------------------------------------------------------------ C3
\* C3: an invocation whose validation result has low_entropy = true sends the
\* low-entropy prompt and nothing else, issues no image search and leaves the
\* attempt count as it found it, also when the result has ambiguous entities.
C3_LowEntropyConsumesNoAttempt ==
    \A p \in Procs :
        (Returned(p) /\ res[p].low_entropy) =>
            /\ Positions(p, "low_entropy") # {}
            /\ Positions(p, "search_images") = {}
            /\ CountNow = seen[p].count

\* ------------------------------------------------------------------------ C4
\* C4: when validation reports an ambiguous tag and the attempt count is below 3,
\* the invocation adds exactly 1 to the count, records the first ambiguous tag of
\* the input as pending, sends exactly one clarification prompt (for that tag) and
\* returns with no other call: no image search, no download.
C4_ClarificationStep ==
    \A p \in Procs :
        (Validated(p) /\ res[p].ambiguous_entities # <<>> /\ seen[p].count < 3) =>
            /\ pc[p] \in {"send_clarify", "returned"}
            /\ CountNow = seen[p].count + 1
            /\ PendingNow = FirstAmbiguousInInput(p)
            /\ pc[p] = "send_clarify" => out[p] = <<>>
            /\ pc[p] = "returned" =>
                  /\ Len(out[p]) = 1
                  /\ out[p][1].op = "clarify"
                  /\ out[p][1].tag = FirstAmbiguousInInput(p)

\* The third clarification of a conversation, on an input with two ambiguous tags.
C4_Witness ==
    \E p \in Procs :
        /\ pc[p] = "returned" /\ outcome[p] = "clarify"
        /\ seen[p].count = 2
        /\ Len(res[p].ambiguous_entities) = 2

\* ------------------------------------------------------------------------ C5
\* C5: an invocation that starts with attempt count 3 and whose validation leaves
\* ambiguous tags passes to the image search the validated tags followed by the
\* first candidate of every ambiguous tag, sends the auto-selected notice exactly
\* once, and issues the search after the notice.
C5_ForcedResolutionTags ==
    \A p \in Procs :
        (Returned(p) /\ seen[p].count = 3 /\ res[p].ambiguous_entities # <<>>) =>
            /\ Cardinality(Positions(p, "notice")) = 1
            /\ Cardinality(Positions(p, "search_images")) = 1
            /\ \A i \in Positions(p, "search_images") :
                  /\ out[p][i].names =
                        res[p].validated_tags \o
                        [k \in 1..Len(res[p].ambiguous_entities) |->
                            res[p].ambiguous_entities[k].candidates[1]]
                  /\ \A j \in Positions(p, "notice") : j < i

\* ------------------------------------------------------------------------ C6
\* C6: whenever an invocation reaches the image search (no ambiguity, or resolution
\* forced after 3 attempts) the conversation holds no disambiguation state when the
\* search is issued, and the invocation that follows starts from attempt count 0
\* with no pending tag.
C6_StateClearedAtSearch ==
    /\ \A p \in Procs :
          (pc[p] \in {"search", "deliver"} \/ Positions(p, "search_images") # {}) =>
              stored = NoState
    /\ \A p \in Procs :
          (pc[p] = "validating" /\ prev \in {"sent", "finished", "error", "escaped"}) =>
              heap[ref[p]] = [count |-> 0, pending_tag |-> None]

\* A resolution forced after 3 attempts is about to issue its search.
C6_Witness ==
    \E p \in Procs :
        /\ pc[p] = "search"
        /\ seen[p].count = 3
        /\ res[p].ambiguous_entities # <<>>

\* ------------------------------------------------------------------------ C7
\* C7: for a tag string whose tags all belong to the weak-semantics set,
\* validate_tags returns low_entropy = true and sends no request to the tag index.
C7_WeakTagsSkipRemote ==
    (VDone /\ \A i \in 1..Len(v_tags) : v_tags[i] \in weak_semantics) =>
        /\ v_results.low_entropy
        /\ v_requests = <<>>

\* ------------------------------------------------------------------------ C8
\* C8: every input tag whose lower-case form is in the allow-list is in
\* validated_tags, and no request is sent for it; a tag string of one or more tags,
\* all allow-listed, causes no request at all and returns fast_path = true, no
\* ambiguous entities, and the tags themselves as validated_tags.
C8_FastPathNoRequest ==
    VDone =>
        /\ \A i \in 1..Len(v_tags) :
              Lower(v_tags[i]) \in FAST_PATH_TAGS =>
                  /\ v_tags[i] \in Range(v_results.validated_tags)
                  /\ \A j \in 1..Len(v_requests) :
                        v_requests[j].tag # v_tags[i] /\ v_requests[j].pos # i
        /\ (Len(v_tags) >= 1 /\ \A i \in 1..Len(v_tags) :
                                    Lower(v_tags[i]) \in FAST_PATH_TAGS) =>
              /\ v_requests = <<>>
              /\ v_results.fast_path
              /\ v_results.ambiguous_entities = <<>>
              /\ v_results.validated_tags = v_tags

\* A finished call on two allow-listed tags, one of them not in lower case.
C8_Witness ==
    /\ VDone
    /\ v_tags = <<"Hatsune_Miku", "hatsune_miku">>
    /\ v_results.fast_path

\* ------------------------------------------------------------------------ C9
\* C9: for a tag outside the allow-list whose exact lookup finds nothing, the
\* fuzzy result decides: more than one ASCII-only candidate makes the tag ambiguous
\* with at most 5 candidates, exactly one puts that candidate in validated_tags,
\* none puts the original tag in validated_tags.
C9_FuzzyClassification ==
    VDone =>
        \A i \in 1..Len(v_log) :
            LET e == v_log[i]
                n == Cardinality({k \in 1..Len(e.fz.data) :
                                     e.fz.data[k] \notin NonAsciiNames})
            IN  (/\ Lower(e.tag) \notin FAST_PATH_TAGS
                 /\ e.ex.kind = "json" /\ e.ex.data = <<>>
                 /\ e.fz.kind = "json") =>
                    /\ n > 1 =>
                          \E k \in 1..Len(v_results.ambiguous_entities) :
                              /\ v_results.ambiguous_entities[k].tag = e.tag
                              /\ Len(v_results.ambiguous_entities[k].candidates) <= 5
                    /\ n = 1 =>
                          \E k \in 1..Len(e.fz.data) :
                              /\ e.fz.data[k] \notin NonAsciiNames
                              /\ e.fz.data[k] \in Range(v_results.validated_tags)
                    /\ n = 0 => e.tag \in Range(v_results.validated_tags)

\* ----------------------------------------------------------------------- C10
\* C10: a failed tag-index request (connection error, timeout, undecodable
\* response) does not end validate_tags: the call returns after an iteration for
\* every tag, the failed iteration appends the original tag to validated_tags, and
\* the other tags end up exactly as in a call without the failed tag.
C10_FailureKeepsTagAndContinues ==
    /\ v_pc # "raised"
    /\ VDone =>
          /\ Len(v_log) = Len(v_tags)
          /\ \A k \in 1..Len(v_log) :
                Failed(v_log[k]) =>
                    LET at == v_log[k].vlen
                        oracle == [i \in 1..Len(v_log) |->
                                      [ex |-> v_log[i].ex, fz |-> v_log[i].fz]]
                        without == validate_tags(RemoveAt(v_tags, k),
                                                 RemoveAt(oracle, k)).results
                    IN  /\ at = (IF k = 1 THEN 0 ELSE v_log[k - 1].vlen) + 1
                        /\ v_results.validated_tags[at] = v_tags[k]
                        /\ RemoveAt(v_results.validated_tags, at) = without.validated_tags
                        /\ v_results.ambiguous_entities = without.ambiguous_entities

\* A finished call whose first tag's request failed and whose second tag was then
\* looked up and found ambiguous.
C10_Witness ==
    /\ VDone
    /\ Len(v_tags) = 2
    /\ Failed(v_log[1])
    /\ v_results.validated_tags = <<v_tags[1]>>
    /\ Len(v_results.ambiguous_entities) = 1


\* ---------------------------------------------------------------- vocabulary
SReturned == s_pc \in {"returned", "caller_done"}

\* The call met a status other than 200, an undecodable body, a timeout or
\* another network error.
SFailed ==
    Range(s_resp) \cap {"status_other", "undecodable", "text_error", "timeout",
                        "client_error", "error"} # {}

\* The page was read and held no record.
SEmptyPage == "no_records" \in Range(s_resp)

\* ----------------------------------------------------------------------- C11
\* C11: search_images never propagates an exception to its caller; a status
\* other than 200, a JSON decode failure, a timeout and any other network error
\* all make it return the empty list.
C11_SearchNeverRaises ==
    /\ s_pc # "raised"
    /\ (SReturned /\ SFailed) => s_result = <<>>

\* A call returned after a 200 response whose body could not be decoded and whose
\* text could not be read either.
C11_Witness ==
    /\ s_pc = "returned"
    /\ s_resp = <<"status_200", "undecodable", "text_error">>
    /\ s_result = <<>>

\* ----------------------------------------------------------------------- C12
\* C12: a search_images call sends at most one request to the search endpoint,
\* with pid in 0..10; when that page holds no record or fails the call returns
\* the empty list without another request; a Command, Action or Tool invocation
\* calls search_images at most once.
C12_OnePageOneCall ==
    /\ Len(s_requests) <= 1
    /\ \A i \in 1..Len(s_requests) : s_requests[i].pid \in 0..10
    /\ s_calls <= 1
    /\ (SReturned /\ (SEmptyPage \/ SFailed)) =>
          /\ s_result = <<>>
          /\ Len(s_requests) = 1

\* The caller went on after a call that asked for page 10 and got an empty page.
C12_Witness ==
    /\ s_pc = "caller_done"
    /\ s_calls = 1
    /\ SEmptyPage
    /\ Len(s_requests) = 1 /\ s_requests[1].pid = 10


\* ----------------------------------------------------------------------- C13
\* C13: no exception leaves Command.execute or Action.execute; an exception
\* raised in the flow (by validation, a send call of the host, store_action_info)
\* ends with the generic failure text sent and the interaction marked complete
\* (Action: a store_action_info call recorded; Command: a normal return); every
\* triggered Action invocation, also one that stops for a clarification or for
\* low-entropy input, has store_action_info recorded when it returns.
C13_NoEscapeAlwaysComplete ==
    \A p \in Procs :
        pc[p] = "returned" =>
            /\ outcome[p] \notin {"escaped", "validation_escaped"}
            /\ outcome[p] \in {"error", "validation_error"} =>
                  Positions(p, "error_text") # {}
            /\ (kind[p] = "action" /\ outcome[p] # "silent") =>
                  Positions(p, "store_action_info") # {}



\* ---------------------------------------------------------------- vocabulary
Words(cs) == Range(Split(cs))

\* ----------------------------------------------------------------------- C14
\* C14: for any text, handing the space-joined output of extract_tags back to
\* extract_tags yields exactly the same set of tags (for every entry of the
\* mapping table, also those whose value holds '-', '(', ')' or ':').
C14_ExtractIdempotent ==
    x_pc = "again" => Words(x_again) = Words(x_tags)

\* ----------------------------------------------------------------------- C15
\* C15: for the text WantMikuHighres, the tag index confirming every tag by its
\* exact name and rating 'safe', the extracted tags include hatsune_miku and
\* highres, and the tags parameter of the search request is exactly hatsune_miku
\* and highres followed by rating:safe.
C15_MikuHighresQuery ==
    (x_text = WantMikuHighres /\ x_pc # "text") =>
        /\ {Chars("hatsune_miku"), Chars("highres")} \subseteq Words(x_tags)
        /\ x_pc = "searched" =>
              /\ Len(Split(x_query)) = 3
              /\ Split(x_query)[3] = Chars("rating:") \o Chars("safe")
              /\ {Split(x_query)[1], Split(x_query)[2]} =
                    {Chars("hatsune_miku"), Chars("highres")}



\* ----------------------------------------------------------------------- C16
\* C16: an invocation reads, changes and writes back the conversation's state
\* with no suspension point in between, so when invocations overlap no increment
\* is lost: every decision to send a clarification prompt raises the count the
\* conversation holds by one.
C16_NoLostIncrement ==
    [][\A p \in Procs :
          (/\ pc[p] = "validating" /\ pc'[p] = "idle"
           /\ stored' = ref[p]
           /\ heap'[ref[p]].count = heap[ref[p]].count + 1) =>
              /\ CountNow' = CountNow + 1
              /\ stored \in {NoState, ref[p]}]_vars

\* ----------------------------------------------------------------------- C17
\* C17: however many invocations overlap and interleave at their awaits, the
\* attempt count of the conversation (and of any dict an invocation holds) never
\* exceeds 3.
C17_CountAtMost3Overlapping ==
    /\ CountNow <= 3
    /\ \A p \in Procs : ref[p] # NoState => heap[ref[p]].count <= 3

\* The conversation's count is 3 while two invocations are suspended in
\* validation, one holding the stored dict, the other a dict of its own.
C17_Witness ==
    \E p, q \in Procs :
        /\ pc[p] = "validating" /\ pc[q] = "validating"
        /\ stored = ref[p] /\ ref[q] # ref[p]
        /\ CountNow = 3


\* ----------------------------------------------------------------------- C18
\* C18: with default_tags = 'anime cute', a triggered command without a tag
\* argument never reaches the image search: validation reports low_entropy and
\* the invocation ends with a clarification prompt or the low-entropy prompt,
\* whatever the tag index answers and whatever the attempt count is.
C18_DefaultTagsNeverSearch ==
    \A p \in Procs :
        (kind[p] = "command" /\ tags[p] = default_tags) =>
            /\ pc[p] \notin {"send_notice", "send_searching", "search", "deliver"}
            /\ Positions(p, "search_images") = {}
            /\ Validated(p) =>
                  /\ res[p].low_entropy
                  /\ pc[p] = "returned" =>
                        /\ outcome[p] \in {"clarify", "low_entropy"}
                        /\ Len(out[p]) = 1
                        /\ out[p][1].op = outcome[p]

\* A command without tags at attempt count 3, an ambiguous default tag: the
\* low-entropy prompt was sent.
C18_Witness ==
    \E p \in Procs :
        /\ kind[p] = "command" /\ tags[p] = default_tags
        /\ pc[p] = "returned" /\ outcome[p] = "low_entropy"
        /\ seen[p].count = 3
        /\ res[p].ambiguous_entities # <<>>


====
